---- MODULE Spec2Model ----
(***************************************************************************)
(* The subscription management API: payment processing                     *)
(* (api/payments.php processPayment, api/whatsapp_service.php), the        *)
(* management of clients and subscriptions (api/clients.php,               *)
(* api/subscriptions.php), the reminders (api/reminders.php) and the       *)
(* system users (api/system_users.php).                                    *)
(*                                                                         *)
(* Every HTTP request is a PHP script with its own PDO connection.  The    *)
(* database is MySQL/InnoDB: a transaction's writes become visible to      *)
(* other connections at COMMIT, a plain SELECT is a non-locking read of    *)
(* committed data, an UPDATE takes the row's exclusive lock until the      *)
(* transaction ends.                                                       *)
(***************************************************************************)
EXTENDS Integers, Sequences, FiniteSets, TLC

VARIABLES
    clients,        \* table clients:        id -> row
    subscriptions,  \* table subscriptions:  id -> row (committed)
    payments,       \* table payments:       set of committed rows
    reminders,      \* table reminders:      id -> row
    nextPaymentId,  \* AUTO_INCREMENT of payments
    nextReminderId, \* AUTO_INCREMENT of reminders
    pc,             \* position of each processPayment request
    req,            \* local variables of each processPayment request
    emailLog,       \* payment ids handed to sendPaymentConfirmationEmail
    relayLog,       \* calls made to the WhatsApp relay, in order
    nextClientId,       \* AUTO_INCREMENT of clients
    nextSubscriptionId, \* AUTO_INCREMENT of subscriptions
    answer,         \* sendResponse of the last clients.php,
                    \* subscriptions.php, reminders.php or
                    \* system_users.php request
    sendQueue,      \* reminder ids the running reminders.php request
                    \* still passes to sendReminderById
    sending,        \* the reminders.php request being served
    sentMessages,   \* reminder ids passed to sendWhatsAppMessage
    system_users,   \* table system_users: id -> row
    nextUserId      \* AUTO_INCREMENT of system_users

\* The state of the management endpoints.
adminVars == <<nextClientId, nextSubscriptionId, answer, sendQueue,
               sending, sentMessages, system_users, nextUserId>>

\* The state of api/system_users.php.
userVars == <<system_users, nextUserId>>

vars == <<clients, subscriptions, payments, reminders,
          nextPaymentId, nextReminderId, pc, req, emailLog, relayLog,
          nextClientId, nextSubscriptionId, answer, sendQueue,
          sending, sentMessages, system_users, nextUserId>>

\* The PHP workers that can run processPayment side by side.
Req == {1, 2}

\* Number of payment rows the model lets requests insert.
MaxPayments == 2

Null == "null"

----------------------------------------------------------------------------
(* Calendar dates are <<year, month, day>>, the 'Y-m-d' strings of the code *)

NoDate == <<0, 0, 0>>

IsLeap(y) == (y % 4 = 0 /\ y % 100 # 0) \/ y % 400 = 0

DaysInMonth(y, m) ==
    IF m = 2 THEN (IF IsLeap(y) THEN 29 ELSE 28)
    ELSE IF m \in {4, 6, 9, 11} THEN 30 ELSE 31

\* A day number past the end of the month runs over into the next month(s).
RECURSIVE NormalizeDays(_, _, _)
NormalizeDays(y, m, d) ==
    IF d <= DaysInMonth(y, m) THEN <<y, m, d>>
    ELSE IF m = 12 THEN NormalizeDays(y + 1, 1, d - DaysInMonth(y, m))
    ELSE NormalizeDays(y, m + 1, d - DaysInMonth(y, m))

\* $date->add(new DateInterval('P' . n . 'M')): the month field is raised by
\* n, the year carried, and the day of month kept as a day count.
DateTimeAddMonths(date, n) ==
    LET m0 == date[2] + n
        y1 == date[1] + ((m0 - 1) \div 12)
        m1 == ((m0 - 1) % 12) + 1
    IN  NormalizeDays(y1, m1, date[3])

calculateNextPaymentDate(start_date, billing_cycle) ==
    DateTimeAddMonths(start_date, billing_cycle)

\* date('Y-m-d') of the day the requests run.
Today == <<2025, 10, 15>>

\* Date a is earlier than date b (SQL a < b on DATE columns).
Earlier(a, b) ==
    \/ a[1] < b[1]
    \/ a[1] = b[1] /\ a[2] < b[2]
    \/ a[1] = b[1] /\ a[2] = b[2] /\ a[3] < b[3]

\* PHP empty() on a string column or input: '', '0' and null are empty.
EmptyStr(s) == s \in {"", "0", Null}

\* PHP empty() on a number: zero (and an unset field, read as zero) is empty.
EmptyNum(n) == n = 0

----------------------------------------------------------------------------
(* Inputs and initial database contents                                    *)

Phones == {"", "0", "+1234567890"}
OptIns == {0, 1}
BillingCycles == {1, 3}
Statuses == {"active", "stopped", "expired"}
StartDates == {<<2024, 12, 31>>, <<2025, 6, 1>>}

\* subscription_id of a request: 0 stands for a missing or empty field,
\* 1 is the stored subscription, 2 names no row.
SubscriptionIdInputs == {0, 1, 2}
AmountInputs == {0, 50}
PaymentDateInputs == {NoDate, <<2025, 1, 15>>}
SendWhatsappInputs == {Null, "true", "false"}

RelayOutcomes == {"ok", "ok_bad_json", "http_error", "curl_error"}

NoRow == [client_id |-> 0, billing_cycle |-> 0, status |-> Null,
          next_payment_date |-> NoDate, client_phone |-> Null,
          whatsapp_opt_in |-> 0]

NoInput == [subscription_id |-> 0, amount |-> 0, payment_date |-> NoDate,
            send_whatsapp |-> Null]

NoResponse == [success |-> FALSE, code |-> 0, payment_id |-> 0,
               next_payment_date |-> NoDate, whatsapp_sent |-> FALSE,
               whatsapp_error |-> Null]

NoLocals == [input |-> NoInput, subscription |-> NoRow, payment_id |-> 0,
             payment_date |-> NoDate, formatted_date |-> NoDate,
             conf_opt_in |-> 0, reminderId |-> 0, relay |-> Null,
             whatsapp_sent |-> FALSE, whatsapp_error |-> Null,
             response |-> NoResponse]

\* No management request has been answered yet.
NoAnswer == [op |-> Null, code |-> 0, data |-> {}, error_log |-> FALSE]

\* No reminders.php request is being served.
NoSending == [op |-> Null, sent |-> 0, failed |-> 0]

\* The system users the schema inserts: an administrator and a staff user.
SampleUsers ==
    (1 :> [email |-> "admin@subscription.com", role |-> "admin"])
    @@ (2 :> [email |-> "staff@subscription.com", role |-> "staff"])

Init ==
    /\ \E ph \in Phones, o \in OptIns :
          clients = (1 :> [phone |-> ph, whatsapp_opt_in |-> o])
    /\ \E sd \in StartDates, c \in BillingCycles, st \in Statuses :
          subscriptions =
              (1 :> [client_id |-> 1, type |-> "internet",
                     start_date |-> sd, billing_cycle |-> c,
                     status |-> st,
                     next_payment_date |-> calculateNextPaymentDate(sd, c)])
    /\ payments = {}
    /\ reminders = <<>>
    /\ nextPaymentId = 1
    /\ nextReminderId = 1
    /\ pc = [r \in Req |-> "idle"]
    /\ req = [r \in Req |-> NoLocals]
    /\ emailLog = {}
    /\ relayLog = <<>>
    /\ nextClientId = 2
    /\ nextSubscriptionId = 2
    /\ answer = NoAnswer
    /\ sendQueue = <<>>
    /\ sending = NoSending
    /\ sentMessages = {}
    /\ system_users = SampleUsers
    /\ nextUserId = 3


----------------------------------------------------------------------------
(* processPayment, one action per statement that touches shared state      *)

Set(r, locals) == req' = [req EXCEPT ![r] = locals]

ErrorResponse(code) == [NoResponse EXCEPT !.code = code]

\* The request ends (sendResponse exits the script): its locals are gone,
\* the answer stays on record.
Finish(r, response) ==
    /\ pc' = [pc EXCEPT ![r] = "done"]
    /\ Set(r, [NoLocals EXCEPT !.response = response])

\* Requests accepted but not yet past their INSERT.
BeforeInsert == {q \in Req : pc[q] \in {"select", "insert"}}

\* Row locks of subscription sid held by request q.  The INSERT into
\* payments checks the foreign key and takes a shared lock on the parent
\* row; the UPDATE takes the exclusive lock.  Both are held until the
\* transaction commits or rolls back.
HoldsShared(q, sid) ==
    pc[q] = "update" /\ req[q].input.subscription_id = sid

HoldsExclusive(q, sid) ==
    pc[q] = "commit" /\ req[q].input.subscription_id = sid

\* The request bodies a caller can send.
Inputs ==
    [subscription_id : SubscriptionIdInputs, amount : AmountInputs,
     payment_date : PaymentDateInputs, send_whatsapp : SendWhatsappInputs]

\* Mutation: the required-field check also rejects a negative amount.
ReceiveFromPositiveOnly(r, bodies) ==
    /\ pc[r] \in {"idle", "done"}
    /\ (nextPaymentId - 1) + Cardinality(BeforeInsert) < MaxPayments
    /\ \E input \in bodies :
          IF EmptyNum(input.subscription_id) \/ input.amount <= 0
          THEN Finish(r, ErrorResponse(400))
          ELSE /\ pc' = [pc EXCEPT ![r] = "select"]
               /\ Set(r, [NoLocals EXCEPT
                            !.input = input,
                            !.payment_date =
                                IF input.payment_date = NoDate
                                THEN Today ELSE input.payment_date])
    /\ UNCHANGED <<clients, subscriptions, payments, reminders,
                   nextPaymentId, nextReminderId, emailLog, relayLog>>
    /\ UNCHANGED adminVars

\* Required-field check, input defaults and beginTransaction, for a request
\* body taken from the given set.
ReceiveFrom(r, bodies) ==
    /\ pc[r] \in {"idle", "done"}
    /\ (nextPaymentId - 1) + Cardinality(BeforeInsert) < MaxPayments
    /\ \E input \in bodies :
          IF EmptyNum(input.subscription_id) \/ EmptyNum(input.amount)
          THEN Finish(r, ErrorResponse(400))
          ELSE /\ pc' = [pc EXCEPT ![r] = "select"]
               /\ Set(r, [NoLocals EXCEPT
                            !.input = input,
                            !.payment_date =
                                IF input.payment_date = NoDate
                                THEN Today ELSE input.payment_date])
    /\ UNCHANGED <<clients, subscriptions, payments, reminders,
                   nextPaymentId, nextReminderId, emailLog, relayLog>>
    /\ UNCHANGED adminVars

\* A request arrives while no other payment request is being served; the
\* workers are interchangeable, the first one takes it.
Receive(r) ==
    /\ \A q \in Req : q < r \/ pc[q] \in {"idle", "done"}
    /\ \A q \in Req : q >= r
    /\ ReceiveFrom(r, Inputs)

\* Two cashiers record a payment of the same subscription at the same time.
ConcurrentInputs ==
    {i \in Inputs : /\ i.subscription_id = 1 /\ i.amount = 50
                    /\ i.send_whatsapp = "false"}

ReceiveConcurrent(r) == ReceiveFrom(r, ConcurrentInputs)

\* Mutation: a SELECT that finds no row does not end the request.
SelectSubscriptionIgnoresMissing(r) ==
    /\ pc[r] = "select"
    /\ LET sid == req[r].input.subscription_id IN
       IF sid \notin DOMAIN subscriptions
       THEN /\ pc' = [pc EXCEPT ![r] = "insert"]
            /\ UNCHANGED req
       ELSE LET s == subscriptions[sid]
                c == clients[s.client_id]
            IN  /\ pc' = [pc EXCEPT ![r] = "insert"]
                /\ Set(r, [req[r] EXCEPT !.subscription =
                       [client_id |-> s.client_id,
                        billing_cycle |-> s.billing_cycle,
                        status |-> s.status,
                        next_payment_date |-> s.next_payment_date,
                        client_phone |-> c.phone,
                        whatsapp_opt_in |-> c.whatsapp_opt_in]])
    /\ UNCHANGED <<clients, subscriptions, payments, reminders,
                   nextPaymentId, nextReminderId, emailLog, relayLog>>
    /\ UNCHANGED adminVars

\* SELECT s.*, c.phone, c.whatsapp_opt_in ... WHERE s.id = :subscription_id
SelectSubscription(r) ==
    /\ pc[r] = "select"
    /\ LET sid == req[r].input.subscription_id IN
       IF sid \notin DOMAIN subscriptions
          \/ subscriptions[sid].client_id \notin DOMAIN clients
       THEN Finish(r, ErrorResponse(404))
       ELSE LET s == subscriptions[sid]
                c == clients[s.client_id]
            IN  /\ pc' = [pc EXCEPT ![r] = "insert"]
                /\ Set(r, [req[r] EXCEPT !.subscription =
                       [client_id |-> s.client_id,
                        billing_cycle |-> s.billing_cycle,
                        status |-> s.status,
                        next_payment_date |-> s.next_payment_date,
                        client_phone |-> c.phone,
                        whatsapp_opt_in |-> c.whatsapp_opt_in]])
    /\ UNCHANGED <<clients, subscriptions, payments, reminders,
                   nextPaymentId, nextReminderId, emailLog, relayLog>>
    /\ UNCHANGED adminVars

\* INSERT INTO payments ...; the row stays private to the transaction.  The
\* foreign-key check waits while another transaction has the subscription
\* row locked exclusively.
InsertPayment(r) ==
    /\ pc[r] = "insert"
    /\ req[r].input.subscription_id \in DOMAIN subscriptions
    /\ \A q \in Req \ {r} :
           ~HoldsExclusive(q, req[r].input.subscription_id)
    /\ pc' = [pc EXCEPT ![r] = "update"]
    /\ Set(r, [req[r] EXCEPT !.payment_id = nextPaymentId])
    /\ nextPaymentId' = nextPaymentId + 1
    /\ UNCHANGED <<clients, subscriptions, payments, reminders,
                   nextReminderId, emailLog, relayLog>>
    /\ UNCHANGED adminVars

\* The new due date, from the row this request selected.
NewNextDate(subscription) ==
    DateTimeAddMonths(subscription.next_payment_date,
                      subscription.billing_cycle)

\* Mutation: the confirmation email is sent right after the UPDATE, while
\* the transaction is still open.
UpdateSubscriptionThenEmail(r) ==
    /\ pc[r] = "update"
    /\ \A q \in Req \ {r} :
           /\ ~HoldsShared(q, req[r].input.subscription_id)
           /\ ~HoldsExclusive(q, req[r].input.subscription_id)
    /\ pc' = [pc EXCEPT ![r] = "commit"]
    /\ Set(r, [req[r] EXCEPT !.formatted_date =
                                 NewNextDate(req[r].subscription)])
    /\ emailLog' = emailLog \cup {req[r].payment_id}
    /\ UNCHANGED <<clients, subscriptions, payments, reminders,
                   nextPaymentId, nextReminderId, relayLog>>
    /\ UNCHANGED adminVars

\* UPDATE subscriptions SET next_payment_date = ..., status = 'active':
\* waits until no other transaction holds a lock on the row.  (Two requests
\* that both hold the shared lock wait for each other; the server ends the
\* deadlock by failing one of them, see DbError.)
UpdateSubscription(r) ==
    /\ pc[r] = "update"
    /\ \A q \in Req \ {r} :
           /\ ~HoldsShared(q, req[r].input.subscription_id)
           /\ ~HoldsExclusive(q, req[r].input.subscription_id)
    /\ pc' = [pc EXCEPT ![r] = "commit"]
    /\ Set(r, [req[r] EXCEPT !.formatted_date =
                                 NewNextDate(req[r].subscription)])
    /\ UNCHANGED <<clients, subscriptions, payments, reminders,
                   nextPaymentId, nextReminderId, emailLog, relayLog>>
    /\ UNCHANGED adminVars

\* Mutation: the UPDATE advances the date and leaves the status alone.
PaidRowKeepsStatus(row, next_payment_date) ==
    [row EXCEPT !.next_payment_date = next_payment_date]

\* SET next_payment_date = :next_payment_date, status = 'active'
PaidRow(row, next_payment_date) ==
    [row EXCEPT !.next_payment_date = next_payment_date,
                !.status = "active"]

PaymentRow(r) ==
    [id |-> req[r].payment_id,
     subscription_id |-> req[r].input.subscription_id,
     amount |-> req[r].input.amount,
     payment_date |-> req[r].payment_date]

\* $db->commit(): the inserted payment and the updated subscription become
\* visible together.
Commit(r) ==
    /\ pc[r] = "commit"
    /\ pc' = [pc EXCEPT ![r] = "email"]
    /\ payments' = payments \cup {PaymentRow(r)}
    /\ subscriptions' =
           LET sid == req[r].input.subscription_id IN
           IF sid \in DOMAIN subscriptions
           THEN [subscriptions EXCEPT
                    ![sid] = PaidRow(subscriptions[sid],
                                     req[r].formatted_date)]
           ELSE subscriptions
    /\ UNCHANGED <<clients, reminders, nextPaymentId,
                   nextReminderId, req, emailLog, relayLog>>
    /\ UNCHANGED adminVars

\* Mutation: the error path answers 500 without rolling back, so whatever
\* the transaction wrote so far is kept.
DbErrorKeepsWrites(r) ==
    /\ pc[r] \in {"select", "insert", "update", "commit"}
    /\ Finish(r, ErrorResponse(500))
    /\ payments' = IF pc[r] \in {"update", "commit"}
                   THEN payments \cup {PaymentRow(r)} ELSE payments
    /\ UNCHANGED <<clients, subscriptions, reminders,
                   nextPaymentId, nextReminderId, emailLog, relayLog>>
    /\ UNCHANGED adminVars

\* A statement of the transaction throws PDOException (or returns false):
\* rollBack and a 500 answer.
DbError(r) ==
    /\ pc[r] \in {"select", "insert", "update", "commit"}
    /\ Finish(r, ErrorResponse(500))
    /\ UNCHANGED <<clients, subscriptions, payments, reminders,
                   nextPaymentId, nextReminderId, emailLog, relayLog>>
    /\ UNCHANGED adminVars

\* sendPaymentConfirmationEmail(...)
SendEmail(r) ==
    /\ pc[r] = "email"
    /\ pc' = [pc EXCEPT ![r] = "eval"]
    /\ emailLog' = emailLog \cup {req[r].payment_id}
    /\ UNCHANGED <<clients, subscriptions, payments, reminders,
                   nextPaymentId, nextReminderId, req, relayLog>>
    /\ UNCHANGED adminVars

\* Mutation: an explicit send_whatsapp = true is honoured without looking
\* at the opt-in flag.
ShouldSendOnRequest(send_whatsapp_request, subscription) ==
    IF send_whatsapp_request = Null
    THEN subscription.whatsapp_opt_in = 1
         /\ ~EmptyStr(subscription.client_phone)
    ELSE /\ send_whatsapp_request = "true"
         /\ ~EmptyStr(subscription.client_phone)

ShouldSendWhatsapp(send_whatsapp_request, subscription) ==
    IF send_whatsapp_request = Null
    THEN subscription.whatsapp_opt_in = 1
         /\ ~EmptyStr(subscription.client_phone)
    ELSE /\ send_whatsapp_request = "true"
         /\ subscription.whatsapp_opt_in = 1
         /\ ~EmptyStr(subscription.client_phone)

\* $whatsapp_sent = false; $whatsapp_error = null; $should_send_whatsapp = ...
EvalWhatsapp(r) ==
    /\ pc[r] = "eval"
    /\ pc' = [pc EXCEPT ![r] =
                 IF ShouldSendWhatsapp(req[r].input.send_whatsapp,
                                       req[r].subscription)
                 THEN "conf_select" ELSE "respond"]
    /\ Set(r, [req[r] EXCEPT !.whatsapp_sent = FALSE,
                             !.whatsapp_error = Null])
    /\ UNCHANGED <<clients, subscriptions, payments, reminders,
                   nextPaymentId, nextReminderId, emailLog, relayLog>>
    /\ UNCHANGED adminVars

\* The confirmation returned without success: processPayment copies the
\* result into $whatsapp_sent / $whatsapp_error.
ConfFailed(r, error) ==
    /\ pc' = [pc EXCEPT ![r] = "respond"]
    /\ Set(r, [req[r] EXCEPT !.whatsapp_sent = FALSE,
                             !.whatsapp_error = error])

\* sendPaymentConfirmationInternal: load the payment with its client, check
\* the phone and the opt-in again.
ConfSelect(r) ==
    /\ pc[r] = "conf_select"
    /\ LET cid == req[r].subscription.client_id
           phone == req[r].subscription.client_phone
       IN
       IF \/ \A p \in payments : p.id # req[r].payment_id
          \/ cid \notin DOMAIN clients
       THEN ConfFailed(r, "Payment not found")
       ELSE IF EmptyStr(phone)
       THEN ConfFailed(r, "Client phone number is missing")
       ELSE IF clients[cid].whatsapp_opt_in # 1
       THEN ConfFailed(r, "Client has not opted in for WhatsApp notifications")
       ELSE /\ pc' = [pc EXCEPT ![r] = "conf_insert"]
            /\ Set(r, [req[r] EXCEPT !.conf_opt_in =
                                         clients[cid].whatsapp_opt_in])
    /\ UNCHANGED <<clients, subscriptions, payments, reminders,
                   nextPaymentId, nextReminderId, emailLog, relayLog>>
    /\ UNCHANGED adminVars

\* INSERT INTO reminders (..., send_via_whatsapp, status, ...)
\*        VALUES (..., 1, 'sent', ...)
ConfInsertReminder(r) ==
    /\ pc[r] = "conf_insert"
    /\ req[r].subscription.client_id \in DOMAIN clients
    /\ pc' = [pc EXCEPT ![r] = "conf_send"]
    /\ reminders' = reminders @@
           (nextReminderId :>
               [client_id |-> req[r].subscription.client_id,
                send_via_whatsapp |-> 1, status |-> "sent",
                payment_id |-> req[r].payment_id])
    /\ nextReminderId' = nextReminderId + 1
    /\ Set(r, [req[r] EXCEPT !.reminderId = nextReminderId])
    /\ UNCHANGED <<clients, subscriptions, payments, nextPaymentId, emailLog, relayLog>>
    /\ UNCHANGED adminVars

\* The result array of sendWhatsAppViaApi for what curl reported.
SendResult(outcome) ==
    IF outcome = "curl_error"
    THEN [success |-> FALSE, error |-> "curl error"]
    ELSE IF outcome = "http_error"
    THEN [success |-> FALSE, error |-> "Error sending WhatsApp message"]
    ELSE [success |-> TRUE, error |-> Null]

\* Mutation: a relay call that fails is made again.
ConfSendRetries(r) ==
    /\ pc[r] = "conf_send"
    /\ relayLog' = Append(relayLog, req[r].payment_id)
    /\ \E outcome \in RelayOutcomes :
          LET sendResult == SendResult(outcome) IN
          IF sendResult.success
          THEN /\ pc' = [pc EXCEPT ![r] = "respond"]
               /\ Set(r, [req[r] EXCEPT !.relay = outcome,
                                        !.whatsapp_sent = TRUE,
                                        !.whatsapp_error = Null])
          ELSE /\ UNCHANGED pc
               /\ Set(r, [req[r] EXCEPT !.relay = outcome,
                                        !.whatsapp_error = sendResult.error])
    /\ UNCHANGED <<clients, subscriptions, payments, reminders,
                   nextPaymentId, nextReminderId, emailLog>>
    /\ UNCHANGED adminVars

\* sendWhatsAppViaApi: the HTTP call and its result (the whatsapp_logs row
\* written in between is bookkeeping: a failed insert is only logged).
ConfSend(r) ==
    /\ pc[r] = "conf_send"
    /\ relayLog' = Append(relayLog, req[r].payment_id)
    /\ \E outcome \in RelayOutcomes :
          LET sendResult == SendResult(outcome) IN
          IF sendResult.success
          THEN /\ pc' = [pc EXCEPT ![r] = "respond"]
               /\ Set(r, [req[r] EXCEPT !.relay = outcome,
                                        !.whatsapp_sent = TRUE,
                                        !.whatsapp_error = Null])
          ELSE /\ pc' = [pc EXCEPT ![r] = "conf_update"]
               /\ Set(r, [req[r] EXCEPT !.relay = outcome,
                                        !.whatsapp_error = sendResult.error])
    /\ UNCHANGED <<clients, subscriptions, payments, reminders,
                   nextPaymentId, nextReminderId, emailLog>>
    /\ UNCHANGED adminVars

\* UPDATE reminders SET status = 'failed' WHERE id = :id
ConfUpdateReminder(r) ==
    /\ pc[r] = "conf_update"
    /\ reminders' =
           IF req[r].reminderId \in DOMAIN reminders
           THEN [reminders EXCEPT ![req[r].reminderId].status = "failed"]
           ELSE reminders
    /\ ConfFailed(r, req[r].whatsapp_error)
    /\ UNCHANGED <<clients, subscriptions, payments, nextPaymentId, nextReminderId, emailLog, relayLog>>
    /\ UNCHANGED adminVars

\* A statement of sendPaymentConfirmationInternal throws PDOException: the
\* function catches it and returns success = false, 'Database error: ...'.
ConfDbError(r) ==
    /\ pc[r] \in {"conf_select", "conf_insert", "conf_update"}
    /\ ConfFailed(r, "Database error")
    /\ UNCHANGED <<clients, subscriptions, payments, reminders,
                   nextPaymentId, nextReminderId, emailLog, relayLog>>
    /\ UNCHANGED adminVars

\* Mutation: a failed WhatsApp confirmation is answered as a failed payment.
RespondFailsWithWhatsapp(r) ==
    /\ pc[r] = "respond"
    /\ Finish(r, [success |-> req[r].whatsapp_error = Null,
                  code |-> IF req[r].whatsapp_error = Null THEN 200 ELSE 500,
                  payment_id |-> req[r].payment_id,
                  next_payment_date |-> req[r].formatted_date,
                  whatsapp_sent |-> req[r].whatsapp_sent,
                  whatsapp_error |-> req[r].whatsapp_error])
    /\ UNCHANGED <<clients, subscriptions, payments, reminders,
                   nextPaymentId, nextReminderId, emailLog, relayLog>>
    /\ UNCHANGED adminVars

\* sendResponse(true, 'Payment processed successfully', $response_data)
Respond(r) ==
    /\ pc[r] = "respond"
    /\ Finish(r, [success |-> TRUE, code |-> 200,
                  payment_id |-> req[r].payment_id,
                  next_payment_date |-> req[r].formatted_date,
                  whatsapp_sent |-> req[r].whatsapp_sent,
                  whatsapp_error |-> req[r].whatsapp_error])
    /\ UNCHANGED <<clients, subscriptions, payments, reminders,
                   nextPaymentId, nextReminderId, emailLog, relayLog>>
    /\ UNCHANGED adminVars

----------------------------------------------------------------------------
(* Staff edits of the client, running beside the payment requests          *)

\* UPDATE clients SET ..., phone = :phone, whatsapp_opt_in = :whatsapp_opt_in
editClient(id) ==
    /\ id \in DOMAIN clients
    /\ \E ph \in Phones, o \in OptIns :
          clients' = [clients EXCEPT ![id] =
                         [phone |-> ph, whatsapp_opt_in |-> o]]
    /\ UNCHANGED <<subscriptions, payments, reminders,
                   nextPaymentId, nextReminderId, pc, req, emailLog, relayLog>>
    /\ UNCHANGED adminVars

----------------------------------------------------------------------------

\* The statements of processPayment after the request was received.
Steps(r) ==
    \/ SelectSubscription(r)
    \/ InsertPayment(r)
    \/ UpdateSubscription(r)
    \/ Commit(r)
    \/ DbError(r)
    \/ SendEmail(r)
    \/ EvalWhatsapp(r)
    \/ ConfSelect(r)
    \/ ConfInsertReminder(r)
    \/ ConfSend(r)
    \/ ConfUpdateReminder(r)
    \/ ConfDbError(r)
    \/ Respond(r)

\* Requests served one after the other, with every request body.
Next ==
    \/ \E r \in Req : Receive(r)
    \/ \E r \in Req : Steps(r)
    \/ \E id \in DOMAIN clients : editClient(id)

Spec == Init /\ [][Next]_vars

\* Requests served side by side.
NextConcurrent ==
    \/ \E r \in Req : ReceiveConcurrent(r)
    \/ \E r \in Req :
          \/ SelectSubscription(r)
          \/ InsertPayment(r)
          \/ UpdateSubscription(r)
          \/ Commit(r)
          \/ DbError(r)
          \/ SendEmail(r)
          \/ EvalWhatsapp(r)
          \/ Respond(r)

\* The same database with the client of the schema's sample data.
InitConcurrent ==
    /\ Init
    /\ clients = (1 :> [phone |-> "+1234567890", whatsapp_opt_in |-> 1])

SpecConcurrent == InitConcurrent /\ [][NextConcurrent]_vars

----------------------------------------------------------------------------
(* api/subscriptions.php and the reads and deletes of api/clients.php.     *)
(* Every handler runs its statements in autocommit mode and ends with      *)
(* sendResponse; its UPDATE or DELETE waits for the row locks of an open   *)
(* payment transaction.                                                    *)

\* Number of subscription rows the model lets addSubscription insert.
MaxSubscriptions == 1

\* A payment transaction holds a lock on subscription row sid.
RowLocked(sid) ==
    \E q \in Req : HoldsShared(q, sid) \/ HoldsExclusive(q, sid)

\* sendResponse($success, $message, $data, $code); error_log tells whether
\* the request wrote a line to the PHP error log.
Answer(op, code, data) ==
    [op |-> op, code |-> code, data |-> data, error_log |-> FALSE]

\* What the management requests leave alone besides the tables they name.
paymentVars == <<nextPaymentId, nextReminderId, pc, req, emailLog, relayLog>>

reminderVars == <<sendQueue, sending, sentMessages>>

\* Request parameters: 0 stands for a missing or empty field, NoDate for a
\* missing date.
IdInputs == {0, 1, 2}
StartDateInputs == {<<2024, 12, 31>>, <<2025, 10, 1>>}

\* Request bodies of addSubscription that pass its checks, and the same
\* bodies with one field missing or out of range.
ValidAddSubscriptionInputs ==
    [client_id : {1}, type : {"internet"}, start_date : StartDateInputs,
     billing_cycle : BillingCycles, monthly_amount : {50}]

AddSubscriptionInputs ==
    ValidAddSubscriptionInputs
    \cup {[b EXCEPT !.client_id = 0] : b \in ValidAddSubscriptionInputs}
    \cup {[b EXCEPT !.type = "tv"] : b \in ValidAddSubscriptionInputs}
    \cup {[b EXCEPT !.start_date = NoDate] :
              b \in ValidAddSubscriptionInputs}
    \cup {[b EXCEPT !.billing_cycle = c] :
              b \in ValidAddSubscriptionInputs, c \in {0, 2}}
    \cup {[b EXCEPT !.monthly_amount = 0] :
              b \in ValidAddSubscriptionInputs}

\* The same for editSubscription.
ValidEditSubscriptionInputs ==
    [id : {1, 2}, type : {"internet"}, start_date : StartDateInputs,
     billing_cycle : BillingCycles]

EditSubscriptionInputs ==
    ValidEditSubscriptionInputs
    \cup {[b EXCEPT !.id = 0] : b \in ValidEditSubscriptionInputs}
    \cup {[b EXCEPT !.type = "tv"] : b \in ValidEditSubscriptionInputs}
    \cup {[b EXCEPT !.start_date = NoDate] :
              b \in ValidEditSubscriptionInputs}
    \cup {[b EXCEPT !.billing_cycle = c] :
              b \in ValidEditSubscriptionInputs, c \in {0, 2}}

\* Mutation: the sweep goes by the due date alone, whatever the status.
ExpireRowsByDate(subs) ==
    [id \in DOMAIN subs |->
        IF Earlier(subs[id].next_payment_date, Today)
        THEN [subs[id] EXCEPT !.status = "expired"]
        ELSE subs[id]]

\* Mutation: the sweep also moves rows that are already expired on to
\* stopped.
ExpireRowsEscalating(subs) ==
    [id \in DOMAIN subs |->
        IF subs[id].status = "active"
           /\ Earlier(subs[id].next_payment_date, Today)
        THEN [subs[id] EXCEPT !.status = "expired"]
        ELSE IF subs[id].status = "expired"
        THEN [subs[id] EXCEPT !.status = "stopped"]
        ELSE subs[id]]

\* UPDATE subscriptions SET status = 'expired'
\*  WHERE status = 'active' AND next_payment_date < CURDATE()
ExpireRows(subs) ==
    [id \in DOMAIN subs |->
        IF subs[id].status = "active"
           /\ Earlier(subs[id].next_payment_date, Today)
        THEN [subs[id] EXCEPT !.status = "expired"]
        ELSE subs[id]]

\* The rows of SELECT s.* FROM subscriptions s JOIN clients c ... [WHERE
\* s.client_id = :client_id], with the columns the callers look at.
SubscriptionRows(subs, cl, client_id) ==
    {[id |-> i, status |-> subs[i].status,
      next_payment_date |-> subs[i].next_payment_date] :
        i \in {j \in DOMAIN subs :
                  /\ subs[j].client_id \in DOMAIN cl
                  /\ (client_id > 0 => subs[j].client_id = client_id)}}

\* Mutation: a failing sweep is logged and ends the request with a 500.
getSubscriptionsSweepFatal(client_id) ==
    /\ \/ /\ \A sid \in DOMAIN subscriptions : ~RowLocked(sid)
          /\ subscriptions' = ExpireRows(subscriptions)
          /\ answer' = Answer("getSubscriptions", 200,
                 SubscriptionRows(subscriptions', clients, client_id))
       \/ /\ subscriptions' = subscriptions
          /\ answer' = [Answer("getSubscriptions", 500, {})
                           EXCEPT !.error_log = TRUE]
    /\ UNCHANGED <<clients, payments, reminders, nextClientId,
                   nextSubscriptionId>>
    /\ UNCHANGED paymentVars
    /\ UNCHANGED userVars
    /\ UNCHANGED reminderVars

\* getSubscriptions: updateExpiredSubscriptions, whose PDOException (a lock
\* wait that times out, a lost connection) is logged and dropped, then the
\* list.
getSubscriptions(client_id) ==
    /\ \/ /\ \A sid \in DOMAIN subscriptions : ~RowLocked(sid)
          /\ subscriptions' = ExpireRows(subscriptions)
          /\ answer' = Answer("getSubscriptions", 200,
                 SubscriptionRows(subscriptions', clients, client_id))
       \/ /\ subscriptions' = subscriptions
          /\ answer' = [Answer("getSubscriptions", 200,
                 SubscriptionRows(subscriptions, clients, client_id))
                           EXCEPT !.error_log = TRUE]
    /\ UNCHANGED <<clients, payments, reminders, nextClientId,
                   nextSubscriptionId>>
    /\ UNCHANGED paymentVars
    /\ UNCHANGED userVars
    /\ UNCHANGED reminderVars

\* getClient: the client with its subscriptions (reminders and payments are
\* read the same way).
getClient(id) ==
    /\ answer' =
          IF id <= 0 THEN Answer("getClient", 400, {})
          ELSE IF id \notin DOMAIN clients THEN Answer("getClient", 404, {})
          ELSE Answer("getClient", 200,
                      SubscriptionRows(subscriptions, clients, id))
    /\ UNCHANGED <<clients, subscriptions, payments, reminders,
                   nextClientId, nextSubscriptionId>>
    /\ UNCHANGED paymentVars
    /\ UNCHANGED userVars
    /\ UNCHANGED reminderVars

\* The row addSubscription inserts (status takes the column default).
NewSubscription(input) ==
    [client_id |-> input.client_id, type |-> input.type,
     start_date |-> input.start_date,
     billing_cycle |-> input.billing_cycle, status |-> "active",
     next_payment_date |->
         calculateNextPaymentDate(input.start_date, input.billing_cycle)]

\* Mutation: addSubscription checks the required fields only.
addSubscriptionRequiredOnly(input) ==
    \/ EmptyNum(input.client_id)
    \/ input.start_date = NoDate
    \/ EmptyNum(input.billing_cycle)
    \/ EmptyNum(input.monthly_amount)

\* The 400 checks of addSubscription: required fields, cycle, type.
addSubscriptionRejects(input) ==
    \/ EmptyNum(input.client_id)
    \/ input.start_date = NoDate
    \/ EmptyNum(input.billing_cycle)
    \/ EmptyNum(input.monthly_amount)
    \/ input.billing_cycle \notin {1, 3}
    \/ input.type \notin {"internet", "satellite"}

\* addSubscription: validate, compute the first due date, INSERT.  The
\* foreign key rejects a client_id that names no client (PDOException, 500).
addSubscription(input) ==
    /\ nextSubscriptionId <= MaxSubscriptions
    /\ IF addSubscriptionRejects(input)
       THEN /\ answer' = Answer("addSubscription", 400, {})
            /\ UNCHANGED <<subscriptions, nextSubscriptionId>>
       ELSE IF input.client_id \notin DOMAIN clients
       THEN /\ answer' = Answer("addSubscription", 500, {})
            /\ UNCHANGED <<subscriptions, nextSubscriptionId>>
       ELSE /\ subscriptions' = subscriptions @@
                   (nextSubscriptionId :> NewSubscription(input))
            /\ nextSubscriptionId' = nextSubscriptionId + 1
            /\ answer' = Answer("addSubscription", 200,
                                {[id |-> nextSubscriptionId]})
    /\ UNCHANGED <<clients, payments, reminders, nextClientId>>
    /\ UNCHANGED paymentVars
    /\ UNCHANGED userVars
    /\ UNCHANGED reminderVars

\* The 400 checks of editSubscription: id, cycle, type.
editSubscriptionRejects(input) ==
    \/ input.id <= 0
    \/ input.billing_cycle \notin {1, 3}
    \/ input.type \notin {"internet", "satellite"}

\* Mutation: an edit that changes neither start date nor cycle keeps the
\* due date.
editSubscriptionKeepsDueDate(input) ==
    /\ IF editSubscriptionRejects(input)
       THEN /\ answer' = Answer("editSubscription", 400, {})
            /\ UNCHANGED subscriptions
       ELSE IF input.start_date = NoDate
       THEN /\ answer' = Answer("editSubscription", 500, {})
            /\ UNCHANGED subscriptions
       ELSE /\ ~RowLocked(input.id)
            /\ answer' = Answer("editSubscription", 200, {})
            /\ subscriptions' =
                  IF input.id \in DOMAIN subscriptions
                  THEN [subscriptions EXCEPT ![input.id] =
                          [@ EXCEPT
                             !.type = input.type,
                             !.start_date = input.start_date,
                             !.billing_cycle = input.billing_cycle,
                             !.next_payment_date =
                                 IF /\ input.start_date =
                                        subscriptions[input.id].start_date
                                    /\ input.billing_cycle =
                                        subscriptions[input.id].billing_cycle
                                 THEN @
                                 ELSE calculateNextPaymentDate(
                                          input.start_date,
                                          input.billing_cycle)]]
                  ELSE subscriptions
    /\ UNCHANGED <<clients, payments, reminders, nextClientId,
                   nextSubscriptionId>>
    /\ UNCHANGED paymentVars
    /\ UNCHANGED userVars
    /\ UNCHANGED reminderVars

\* Mutation: an edit puts the subscription back to active.
editSubscriptionReactivates(input) ==
    /\ IF editSubscriptionRejects(input)
       THEN /\ answer' = Answer("editSubscription", 400, {})
            /\ UNCHANGED subscriptions
       ELSE IF input.start_date = NoDate
       THEN /\ answer' = Answer("editSubscription", 500, {})
            /\ UNCHANGED subscriptions
       ELSE /\ ~RowLocked(input.id)
            /\ answer' = Answer("editSubscription", 200, {})
            /\ subscriptions' =
                  IF input.id \in DOMAIN subscriptions
                  THEN [subscriptions EXCEPT ![input.id] =
                          [@ EXCEPT
                             !.type = input.type,
                             !.start_date = input.start_date,
                             !.billing_cycle = input.billing_cycle,
                             !.status = "active",
                             !.next_payment_date =
                                 calculateNextPaymentDate(
                                     input.start_date, input.billing_cycle)]]
                  ELSE subscriptions
    /\ UNCHANGED <<clients, payments, reminders, nextClientId,
                   nextSubscriptionId>>
    /\ UNCHANGED paymentVars
    /\ UNCHANGED userVars
    /\ UNCHANGED reminderVars

\* editSubscription: UPDATE subscriptions SET type, start_date, end_date,
\* billing_cycle, next_payment_date, monthly_amount WHERE id = :id.  A
\* missing start_date violates NOT NULL (500); an id that names no row
\* updates nothing and is answered as a success.
editSubscription(input) ==
    /\ IF editSubscriptionRejects(input)
       THEN /\ answer' = Answer("editSubscription", 400, {})
            /\ UNCHANGED subscriptions
       ELSE IF input.start_date = NoDate
       THEN /\ answer' = Answer("editSubscription", 500, {})
            /\ UNCHANGED subscriptions
       ELSE /\ ~RowLocked(input.id)
            /\ answer' = Answer("editSubscription", 200, {})
            /\ subscriptions' =
                  IF input.id \in DOMAIN subscriptions
                  THEN [subscriptions EXCEPT ![input.id] =
                          [@ EXCEPT
                             !.type = input.type,
                             !.start_date = input.start_date,
                             !.billing_cycle = input.billing_cycle,
                             !.next_payment_date =
                                 calculateNextPaymentDate(
                                     input.start_date, input.billing_cycle)]]
                  ELSE subscriptions
    /\ UNCHANGED <<clients, payments, reminders, nextClientId,
                   nextSubscriptionId>>
    /\ UNCHANGED paymentVars
    /\ UNCHANGED userVars
    /\ UNCHANGED reminderVars

\* Mutation: the UPDATE leaves an expired subscription alone
\* (WHERE id = :id AND status <> 'expired').
SetStatusKeepsExpired(op, id, status) ==
    /\ IF id <= 0
       THEN /\ answer' = Answer(op, 400, {})
            /\ UNCHANGED subscriptions
       ELSE /\ ~RowLocked(id)
            /\ answer' = Answer(op, 200, {})
            /\ subscriptions' =
                  IF id \in DOMAIN subscriptions
                     /\ subscriptions[id].status # "expired"
                  THEN [subscriptions EXCEPT ![id].status = status]
                  ELSE subscriptions
    /\ UNCHANGED <<clients, payments, reminders, nextClientId,
                   nextSubscriptionId>>
    /\ UNCHANGED paymentVars
    /\ UNCHANGED userVars
    /\ UNCHANGED reminderVars

\* UPDATE subscriptions SET status = :status WHERE id = :id, the statement
\* of stopSubscription and resumeSubscription.
SetStatus(op, id, status) ==
    /\ IF id <= 0
       THEN /\ answer' = Answer(op, 400, {})
            /\ UNCHANGED subscriptions
       ELSE /\ ~RowLocked(id)
            /\ answer' = Answer(op, 200, {})
            /\ subscriptions' =
                  IF id \in DOMAIN subscriptions
                  THEN [subscriptions EXCEPT ![id].status = status]
                  ELSE subscriptions
    /\ UNCHANGED <<clients, payments, reminders, nextClientId,
                   nextSubscriptionId>>
    /\ UNCHANGED paymentVars
    /\ UNCHANGED userVars
    /\ UNCHANGED reminderVars

\* Mutation: stopping a subscription voids its payments (amount 0).
stopSubscriptionVoidsPayments(id) ==
    /\ IF id <= 0
       THEN /\ answer' = Answer("stopSubscription", 400, {})
            /\ UNCHANGED <<subscriptions, payments>>
       ELSE /\ ~RowLocked(id)
            /\ answer' = Answer("stopSubscription", 200, {})
            /\ subscriptions' =
                  IF id \in DOMAIN subscriptions
                  THEN [subscriptions EXCEPT ![id].status = "stopped"]
                  ELSE subscriptions
            /\ payments' = {IF p.subscription_id = id
                            THEN [p EXCEPT !.amount = 0] ELSE p :
                                p \in payments}
    /\ UNCHANGED <<clients, reminders, nextClientId, nextSubscriptionId>>
    /\ UNCHANGED paymentVars
    /\ UNCHANGED userVars
    /\ UNCHANGED reminderVars

stopSubscription(id) == SetStatus("stopSubscription", id, "stopped")

resumeSubscription(id) == SetStatus("resumeSubscription", id, "active")

\* Table t without the rows whose key is in ids.
Without(t, ids) == [i \in DOMAIN t \ ids |-> t[i]]

\* deleteSubscription: DELETE FROM subscriptions WHERE id = :id; the
\* payments of the row go with it (ON DELETE CASCADE).
deleteSubscription(id) ==
    /\ IF id <= 0
       THEN /\ answer' = Answer("deleteSubscription", 400, {})
            /\ UNCHANGED <<subscriptions, payments>>
       ELSE IF id \notin DOMAIN subscriptions
       THEN /\ answer' = Answer("deleteSubscription", 404, {})
            /\ UNCHANGED <<subscriptions, payments>>
       ELSE /\ ~RowLocked(id)
            /\ answer' = Answer("deleteSubscription", 200, {})
            /\ subscriptions' = Without(subscriptions, {id})
            /\ payments' = {p \in payments : p.subscription_id # id}
    /\ UNCHANGED <<clients, reminders, nextClientId, nextSubscriptionId>>
    /\ UNCHANGED paymentVars
    /\ UNCHANGED userVars
    /\ UNCHANGED reminderVars

\* The subscriptions of client id.
SubscriptionsOf(id) ==
    {sid \in DOMAIN subscriptions : subscriptions[sid].client_id = id}

\* The reminders of client id.
RemindersOf(id) ==
    {rid \in DOMAIN reminders : reminders[rid].client_id = id}

\* Mutation: the client row is deleted and nothing else.
deleteClientOnly(id) ==
    /\ IF id <= 0
       THEN /\ answer' = Answer("deleteClient", 400, {})
            /\ UNCHANGED <<clients, subscriptions, payments, reminders>>
       ELSE IF id \notin DOMAIN clients
       THEN /\ answer' = Answer("deleteClient", 404, {})
            /\ UNCHANGED <<clients, subscriptions, payments, reminders>>
       ELSE /\ answer' = Answer("deleteClient", 200, {})
            /\ clients' = Without(clients, {id})
            /\ UNCHANGED <<subscriptions, payments, reminders>>
    /\ UNCHANGED <<nextClientId, nextSubscriptionId>>
    /\ UNCHANGED paymentVars
    /\ UNCHANGED userVars
    /\ UNCHANGED reminderVars

\* deleteClient: DELETE FROM clients WHERE id = :id; the foreign keys
\* cascade to the client's subscriptions, their payments and the client's
\* reminders.
deleteClient(id) ==
    /\ IF id <= 0
       THEN /\ answer' = Answer("deleteClient", 400, {})
            /\ UNCHANGED <<clients, subscriptions, payments, reminders>>
       ELSE IF id \notin DOMAIN clients
       THEN /\ answer' = Answer("deleteClient", 404, {})
            /\ UNCHANGED <<clients, subscriptions, payments, reminders>>
       ELSE /\ \A sid \in SubscriptionsOf(id) : ~RowLocked(sid)
            /\ answer' = Answer("deleteClient", 200, {})
            /\ clients' = Without(clients, {id})
            /\ subscriptions' = Without(subscriptions, SubscriptionsOf(id))
            /\ payments' = {p \in payments :
                               p.subscription_id \notin SubscriptionsOf(id)}
            /\ reminders' = Without(reminders, RemindersOf(id))
    /\ UNCHANGED <<nextClientId, nextSubscriptionId>>
    /\ UNCHANGED paymentVars
    /\ UNCHANGED userVars
    /\ UNCHANGED reminderVars

\* Number of client rows the model lets addClient insert.
MaxClients == 1

ClientInputs ==
    [name : {"", "A"}, phone : {"+1234567890"}, whatsapp_opt_in : {1}]

\* addClient: only the name is required (the optional email and its
\* duplicate check are left out of the model).
addClient(input) ==
    /\ nextClientId <= MaxClients
    /\ IF EmptyStr(input.name)
       THEN /\ answer' = Answer("addClient", 400, {})
            /\ UNCHANGED <<clients, nextClientId>>
       ELSE /\ clients' = clients @@
                   (nextClientId :>
                       [phone |-> input.phone,
                        whatsapp_opt_in |-> input.whatsapp_opt_in])
            /\ nextClientId' = nextClientId + 1
            /\ answer' = Answer("addClient", 200, {[id |-> nextClientId]})
    /\ UNCHANGED <<subscriptions, payments, reminders, nextSubscriptionId>>
    /\ UNCHANGED paymentVars
    /\ UNCHANGED userVars
    /\ UNCHANGED reminderVars

\* Pay requests that fail the required-field check of processPayment.
RejectedPaymentInputs ==
    {i \in Inputs : /\ (EmptyNum(i.subscription_id) \/ EmptyNum(i.amount))
                    /\ i.payment_date = NoDate
                    /\ i.send_whatsapp = Null}

ReceiveRejected(r) ==
    /\ \A q \in Req : q >= r
    /\ ReceiveFrom(r, RejectedPaymentInputs)

\* The empty database of a new installation.
InitManage ==
    /\ clients = <<>>
    /\ subscriptions = <<>>
    /\ payments = {}
    /\ reminders = <<>>
    /\ nextClientId = 1
    /\ nextSubscriptionId = 1
    /\ nextPaymentId = 1
    /\ nextReminderId = 1
    /\ pc = [r \in Req |-> "idle"]
    /\ req = [r \in Req |-> NoLocals]
    /\ emailLog = {}
    /\ relayLog = <<>>
    /\ answer = NoAnswer
    /\ sendQueue = <<>>
    /\ sending = NoSending
    /\ sentMessages = {}
    /\ system_users = SampleUsers
    /\ nextUserId = 3

\* Staff manage clients and subscriptions.
NextManage ==
    \/ \E input \in ClientInputs : addClient(input)
    \/ \E id \in IdInputs : deleteClient(id)
    \/ \E id \in IdInputs : getClient(id)
    \/ \E client_id \in {0, 1} : getSubscriptions(client_id)
    \/ \E input \in AddSubscriptionInputs : addSubscription(input)
    \/ \E input \in EditSubscriptionInputs : editSubscription(input)
    \/ \E id \in IdInputs : stopSubscription(id)
    \/ \E id \in IdInputs : resumeSubscription(id)
    \/ \E id \in IdInputs : deleteSubscription(id)
    \/ \E r \in Req : ReceiveRejected(r)

SpecManage == InitManage /\ [][NextManage]_vars

\* Payments recorded while the staff manage the client and its
\* subscription: no WhatsApp confirmation is asked for.
LedgerPaymentInputs ==
    {i \in Inputs : /\ i.subscription_id \in {1, 2}
                    /\ i.amount = 50
                    /\ i.payment_date = NoDate
                    /\ i.send_whatsapp = "false"}

ReceiveLedger(r) ==
    /\ \A q \in Req : q < r \/ pc[q] \in {"idle", "done"}
    /\ \A q \in Req : q >= r
    /\ ReceiveFrom(r, LedgerPaymentInputs)

\* The first client of the schema's sample data with one active
\* subscription and its pending reminder.
InitLedger ==
    /\ clients = (1 :> [phone |-> "+1234567890", whatsapp_opt_in |-> 1])
    /\ \E sd \in StartDates, c \in BillingCycles :
          subscriptions =
              (1 :> [client_id |-> 1, type |-> "internet",
                     start_date |-> sd, billing_cycle |-> c,
                     status |-> "active",
                     next_payment_date |-> calculateNextPaymentDate(sd, c)])
    /\ payments = {}
    /\ reminders = (1 :> [client_id |-> 1, send_via_whatsapp |-> 1,
                          status |-> "pending", payment_id |-> 0])
    /\ nextClientId = 2
    /\ nextSubscriptionId = 2
    /\ nextPaymentId = 1
    /\ nextReminderId = 2
    /\ pc = [r \in Req |-> "idle"]
    /\ req = [r \in Req |-> NoLocals]
    /\ emailLog = {}
    /\ relayLog = <<>>
    /\ answer = NoAnswer
    /\ sendQueue = <<>>
    /\ sending = NoSending
    /\ sentMessages = {}
    /\ system_users = SampleUsers
    /\ nextUserId = 3

\* Payments are recorded while the staff edit, stop, resume, list and
\* delete.
NextLedger ==
    \/ \E r \in Req : ReceiveLedger(r)
    \/ \E r \in Req :
          \/ SelectSubscription(r)
          \/ InsertPayment(r)
          \/ UpdateSubscription(r)
          \/ Commit(r)
          \/ DbError(r)
          \/ SendEmail(r)
          \/ EvalWhatsapp(r)
          \/ Respond(r)
    \/ \E input \in ValidEditSubscriptionInputs : editSubscription(input)
    \/ \E id \in {1} : stopSubscription(id)
    \/ \E id \in {1} : resumeSubscription(id)
    \/ \E client_id \in {0} : getSubscriptions(client_id)
    \/ \E id \in {1} : getClient(id)
    \/ \E id \in {1} : deleteSubscription(id)
    \/ \E id \in {1} : deleteClient(id)

SpecLedger == InitLedger /\ [][NextLedger]_vars

----------------------------------------------------------------------------
(* api/reminders.php.  A request that sends reminders calls                *)
(* sendReminderById once per reminder; other requests run between the      *)
(* calls.                                                                  *)

\* Number of reminder rows the model lets requests insert.
MaxReminders == 2

ReminderInputs ==
    [client_id : {0, 1, 2}, message : {"", "due"},
     send_via_whatsapp : {0, 1}, scheduled : {"now", "later"}]

\* The reminders.php request being served: its action and, for the bulk
\* send, its counters.
Serving(op) == [op |-> op, sent |-> 0, failed |-> 0]

Idle == sending = NoSending

\* The ids of set S in ascending order.
RECURSIVE InOrder(_)
InOrder(S) ==
    IF S = {} THEN <<>>
    ELSE LET m == CHOOSE x \in S : \A y \in S : x <= y
         IN  <<m>> \o InOrder(S \ {m})

\* addReminder: required fields, the client's opt-in, INSERT with status
\* pending; a reminder that is not scheduled for later is then passed to
\* sendReminderById.  The answer does not depend on the outcome of the send.
addReminder(input) ==
    /\ Idle
    /\ nextReminderId <= MaxReminders
    /\ IF EmptyNum(input.client_id) \/ EmptyStr(input.message)
       THEN /\ answer' = Answer("addReminder", 400, {})
            /\ UNCHANGED <<reminders, nextReminderId, sendQueue, sending>>
       ELSE IF input.client_id \notin DOMAIN clients
       THEN /\ answer' = Answer("addReminder", 404, {})
            /\ UNCHANGED <<reminders, nextReminderId, sendQueue, sending>>
       ELSE /\ reminders' = reminders @@
                   (nextReminderId :>
                       [client_id |-> input.client_id,
                        send_via_whatsapp |->
                            IF input.send_via_whatsapp # 0
                               /\ clients[input.client_id].whatsapp_opt_in = 0
                            THEN 0 ELSE input.send_via_whatsapp,
                        status |-> "pending", payment_id |-> 0])
            /\ nextReminderId' = nextReminderId + 1
            /\ answer' = Answer("addReminder", 200, {[id |-> nextReminderId]})
            /\ IF input.scheduled = "now"
               THEN /\ sendQueue' = <<nextReminderId>>
                    /\ sending' = Serving("addReminder")
               ELSE UNCHANGED <<sendQueue, sending>>
    /\ UNCHANGED <<clients, subscriptions, payments, nextClientId,
                   nextSubscriptionId, sentMessages>>
    /\ UNCHANGED <<nextPaymentId, pc, req, emailLog, relayLog>>
    /\ UNCHANGED userVars

\* sendReminder: GET reminders.php?action=send&id=...
sendReminder(id) ==
    /\ Idle
    /\ IF id <= 0
       THEN /\ answer' = Answer("sendReminder", 400, {})
            /\ UNCHANGED <<sendQueue, sending>>
       ELSE /\ sendQueue' = <<id>>
            /\ sending' = Serving("sendReminder")
            /\ UNCHANGED answer
    /\ UNCHANGED <<clients, subscriptions, payments, reminders,
                   nextClientId, nextSubscriptionId, sentMessages>>
    /\ UNCHANGED paymentVars
    /\ UNCHANGED userVars

\* sendBulkReminders: SELECT the pending reminders joined with their
\* clients (the scheduled dates are taken to have arrived), then the loop.
sendBulkReminders ==
    /\ Idle
    /\ LET pending == {id \in DOMAIN reminders :
                          /\ reminders[id].status = "pending"
                          /\ reminders[id].client_id \in DOMAIN clients}
       IN  IF pending = {}
           THEN /\ answer' = Answer("sendBulkReminders", 200,
                                    {[sent |-> 0, failed |-> 0]})
                /\ UNCHANGED <<sendQueue, sending>>
           ELSE /\ sendQueue' = InOrder(pending)
                /\ sending' = Serving("sendBulkReminders")
                /\ UNCHANGED answer
    /\ UNCHANGED <<clients, subscriptions, payments, reminders,
                   nextClientId, nextSubscriptionId, sentMessages>>
    /\ UNCHANGED paymentVars
    /\ UNCHANGED userVars

\* Mutation: the send goes by the flag stored with the reminder alone.
ShouldSendReminderAsStored(reminder, client) ==
    reminder.send_via_whatsapp # 0

\* if ($reminder['send_via_whatsapp'] && $reminder['whatsapp_opt_in'])
ShouldSendReminder(reminder, client) ==
    reminder.send_via_whatsapp # 0 /\ client.whatsapp_opt_in # 0

\* The end of the request: the answer of sendReminder follows the result of
\* its one call, the bulk send reports its counters, addReminder has its
\* answer already.
Served(success) ==
    LET sent == sending.sent + (IF success THEN 1 ELSE 0)
        failed == sending.failed + (IF success THEN 0 ELSE 1)
    IN
    IF Len(sendQueue) > 1
    THEN /\ sending' = [sending EXCEPT !.sent = sent, !.failed = failed]
         /\ UNCHANGED answer
    ELSE /\ sending' = NoSending
         /\ answer' =
               IF sending.op = "sendReminder"
               THEN Answer("sendReminder", IF success THEN 200 ELSE 500, {})
               ELSE IF sending.op = "sendBulkReminders"
               THEN Answer("sendBulkReminders", 200,
                           {[sent |-> sent, failed |-> failed]})
               ELSE answer

\* One call of sendReminderById: SELECT the pending reminder with its
\* client, send over WhatsApp if both flags are set (sendWhatsAppMessage
\* of reminders.php succeeds or fails), UPDATE the status.
sendReminderById ==
    /\ sendQueue # <<>>
    /\ sendQueue' = Tail(sendQueue)
    /\ LET id == Head(sendQueue) IN
       IF \/ id \notin DOMAIN reminders
          \/ reminders[id].status # "pending"
          \/ reminders[id].client_id \notin DOMAIN clients
       THEN /\ Served(FALSE)
            /\ UNCHANGED <<reminders, sentMessages>>
       ELSE LET reminder == reminders[id]
                client == clients[reminder.client_id]
            IN
            IF ShouldSendReminder(reminder, client)
            THEN /\ sentMessages' = sentMessages \cup {id}
                 /\ \E delivered \in BOOLEAN :
                       /\ reminders' = [reminders EXCEPT ![id].status =
                              IF delivered THEN "sent" ELSE "failed"]
                       /\ Served(delivered)
            ELSE IF reminder.send_via_whatsapp # 0
            THEN /\ reminders' = [reminders EXCEPT ![id].status = "failed"]
                 /\ Served(FALSE)
                 /\ UNCHANGED sentMessages
            ELSE /\ reminders' = [reminders EXCEPT ![id].status = "sent"]
                 /\ Served(TRUE)
                 /\ UNCHANGED sentMessages
    /\ UNCHANGED <<clients, subscriptions, payments, nextClientId,
                   nextSubscriptionId>>
    /\ UNCHANGED paymentVars
    /\ UNCHANGED userVars

\* deleteReminder: DELETE FROM reminders WHERE id = :id
deleteReminder(id) ==
    /\ answer' =
          IF id <= 0 THEN Answer("deleteReminder", 400, {})
          ELSE IF id \notin DOMAIN reminders
          THEN Answer("deleteReminder", 404, {})
          ELSE Answer("deleteReminder", 200, {})
    /\ reminders' = IF id \in DOMAIN reminders
                    THEN Without(reminders, {id}) ELSE reminders
    /\ UNCHANGED <<clients, subscriptions, payments, nextClientId,
                   nextSubscriptionId>>
    /\ UNCHANGED paymentVars
    /\ UNCHANGED userVars
    /\ UNCHANGED reminderVars

\* The staff add, send and delete reminders while clients are edited and
\* deleted; the database starts from the sample rows of InitLedger.
NextReminders ==
    \/ \E input \in ReminderInputs : addReminder(input)
    \/ \E id \in IdInputs : sendReminder(id)
    \/ sendBulkReminders
    \/ sendReminderById
    \/ \E id \in IdInputs : deleteReminder(id)
    \/ \E id \in DOMAIN clients : editClient(id)
    \/ \E id \in {1} : deleteClient(id)

SpecReminders == InitLedger /\ [][NextReminders]_vars

----------------------------------------------------------------------------
(* Payments with their WhatsApp confirmation, recorded while the staff     *)
(* send the stored reminders.                                              *)

\* Pay requests of the stored subscription that ask for the confirmation
\* or leave it to the client's opt-in.
RelayPaymentInputs ==
    {i \in Inputs : /\ i.subscription_id = 1
                    /\ i.amount = 50
                    /\ i.payment_date = NoDate
                    /\ i.send_whatsapp \in {Null, "true"}}

ReceiveRelay(r) ==
    /\ \A q \in Req : q < r \/ pc[q] \in {"idle", "done"}
    /\ \A q \in Req : q >= r
    /\ ReceiveFrom(r, RelayPaymentInputs)

NextRelay ==
    \/ \E r \in Req : ReceiveRelay(r)
    \/ \E r \in Req : Steps(r)
    \/ \E id \in IdInputs : sendReminder(id)
    \/ sendBulkReminders
    \/ sendReminderById

SpecRelay == InitLedger /\ [][NextRelay]_vars

----------------------------------------------------------------------------
(* The life of a subscription from its creation: the staff add, edit,      *)
(* stop, resume and list while payments are recorded.                      *)

\* The first client of the schema's sample data, no subscription yet; the
\* staff create one.
InitLifecycle ==
    /\ clients = (1 :> [phone |-> "+1234567890", whatsapp_opt_in |-> 1])
    /\ subscriptions = <<>>
    /\ payments = {}
    /\ reminders = <<>>
    /\ nextClientId = 2
    /\ nextSubscriptionId = 1
    /\ nextPaymentId = 1
    /\ nextReminderId = 1
    /\ pc = [r \in Req |-> "idle"]
    /\ req = [r \in Req |-> NoLocals]
    /\ emailLog = {}
    /\ relayLog = <<>>
    /\ answer = NoAnswer
    /\ sendQueue = <<>>
    /\ sending = NoSending
    /\ sentMessages = {}
    /\ system_users = SampleUsers
    /\ nextUserId = 3

NextLifecycle ==
    \/ \E input \in ValidAddSubscriptionInputs :
          nextSubscriptionId = 1 /\ addSubscription(input)
    \/ \E input \in ValidEditSubscriptionInputs : editSubscription(input)
    \/ \E id \in {1} : stopSubscription(id)
    \/ \E id \in {1} : resumeSubscription(id)
    \/ \E client_id \in {0} : getSubscriptions(client_id)
    \/ \E r \in Req : ReceiveLedger(r)
    \/ \E r \in Req :
          \/ SelectSubscription(r)
          \/ InsertPayment(r)
          \/ UpdateSubscription(r)
          \/ Commit(r)
          \/ DbError(r)
          \/ SendEmail(r)
          \/ EvalWhatsapp(r)
          \/ Respond(r)

SpecLifecycle == InitLifecycle /\ [][NextLifecycle]_vars

----------------------------------------------------------------------------
(* The same life without edits: a subscription is created, paid, stopped,  *)
(* resumed and listed.                                                     *)

\* Pay requests with a positive, a zero and a negative amount.
LifecycleAmounts == {-5, 0, 50}

LifecyclePaymentInputs ==
    [subscription_id : {1, 2}, amount : LifecycleAmounts,
     payment_date : {NoDate}, send_whatsapp : {"false"}]

ReceiveLifecycle(r) ==
    /\ \A q \in Req : q < r \/ pc[q] \in {"idle", "done"}
    /\ \A q \in Req : q >= r
    /\ ReceiveFrom(r, LifecyclePaymentInputs)

NextUnedited ==
    \/ \E input \in ValidAddSubscriptionInputs :
          nextSubscriptionId = 1 /\ addSubscription(input)
    \/ \E id \in {1} : stopSubscription(id)
    \/ \E id \in {1} : resumeSubscription(id)
    \/ \E client_id \in {0} : getSubscriptions(client_id)
    \/ \E r \in Req : ReceiveLifecycle(r)
    \/ \E r \in Req :
          \/ SelectSubscription(r)
          \/ InsertPayment(r)
          \/ UpdateSubscription(r)
          \/ Commit(r)
          \/ DbError(r)
          \/ SendEmail(r)
          \/ EvalWhatsapp(r)
          \/ Respond(r)

SpecUnedited == InitLifecycle /\ [][NextUnedited]_vars

----------------------------------------------------------------------------
(* api/system_users.php.  The script serves callers whose token carries    *)
(* the role admin; every handler runs its statements in autocommit mode    *)
(* and ends with sendResponse.                                             *)

\* Number of ids the model lets system_users hand out.
MaxUsers == 3

\* What the system-user requests leave alone.
businessVars == <<clients, subscriptions, payments, reminders,
                  nextClientId, nextSubscriptionId, sendQueue, sending,
                  sentMessages>>

Roles == {"admin", "staff"}

\* filter_var($email, FILTER_VALIDATE_EMAIL)
ValidEmail(email) == email \notin {"", "not-an-email"}

\* Request bodies that pass the checks (password stands for its length),
\* and the same bodies with one field missing or out of range.
ValidUserInputs ==
    [id : {1, 2, 3}, name : {"N"},
     email : {"admin@subscription.com", "new@subscription.com"},
     password : {6}, role : Roles]

UserInputs ==
    ValidUserInputs
    \cup {[b EXCEPT !.id = 0] : b \in ValidUserInputs}
    \cup {[b EXCEPT !.name = ""] : b \in ValidUserInputs}
    \cup {[b EXCEPT !.email = x] :
              b \in ValidUserInputs, x \in {"", "not-an-email"}}
    \cup {[b EXCEPT !.password = n] : b \in ValidUserInputs, n \in {0, 5}}
    \cup {[b EXCEPT !.role = x] : b \in ValidUserInputs, x \in {"", "root"}}

\* The script's first check: a token without the role admin gets 403.
accessDenied ==
    /\ answer' = Answer("system_users", 403, {})
    /\ UNCHANGED userVars
    /\ UNCHANGED businessVars
    /\ UNCHANGED paymentVars

\* addSystemUser: required fields, email format, role, password length,
\* duplicate email, INSERT (the id of the body is not read).
addSystemUser(input) ==
    /\ nextUserId <= MaxUsers
    /\ IF \/ EmptyStr(input.name) \/ EmptyStr(input.email)
          \/ input.password = 0 \/ EmptyStr(input.role)
          \/ ~ValidEmail(input.email)
          \/ input.role \notin {"admin", "staff"}
          \/ input.password < 6
          \/ \E id \in DOMAIN system_users :
                 system_users[id].email = input.email
       THEN /\ answer' = Answer("addSystemUser", 400, {})
            /\ UNCHANGED userVars
       ELSE /\ system_users' = system_users @@
                   (nextUserId :>
                       [email |-> input.email, role |-> input.role])
            /\ nextUserId' = nextUserId + 1
            /\ answer' = Answer("addSystemUser", 200, {[id |-> nextUserId]})
    /\ UNCHANGED businessVars
    /\ UNCHANGED paymentVars

\* editSystemUser: id, email format, role, duplicate email, password
\* length when a password is given, UPDATE ... SET name, email, [password,]
\* role WHERE id = :id.  An id that names no row updates nothing and is
\* answered as a success.
editSystemUser(input) ==
    /\ IF \/ input.id <= 0
          \/ ~ValidEmail(input.email)
          \/ input.role \notin {"admin", "staff"}
          \/ \E id \in DOMAIN system_users \ {input.id} :
                 system_users[id].email = input.email
          \/ (input.password # 0 /\ input.password < 6)
       THEN /\ answer' = Answer("editSystemUser", 400, {})
            /\ UNCHANGED system_users
       ELSE /\ answer' = Answer("editSystemUser", 200, {})
            /\ system_users' =
                  IF input.id \in DOMAIN system_users
                  THEN [system_users EXCEPT ![input.id] =
                          [email |-> input.email, role |-> input.role]]
                  ELSE system_users
    /\ UNCHANGED nextUserId
    /\ UNCHANGED businessVars
    /\ UNCHANGED paymentVars

\* SELECT COUNT(*) as admin_count FROM system_users WHERE role = 'admin'
admin_count ==
    Cardinality({id \in DOMAIN system_users :
                     system_users[id].role = "admin"})

\* deleteSystemUser: the last admin is not deleted; DELETE FROM
\* system_users WHERE id = :id.
deleteSystemUser(id) ==
    /\ IF id <= 0
       THEN /\ answer' = Answer("deleteSystemUser", 400, {})
            /\ UNCHANGED system_users
       ELSE IF /\ admin_count <= 1
               /\ id \in DOMAIN system_users
               /\ system_users[id].role = "admin"
       THEN /\ answer' = Answer("deleteSystemUser", 400, {})
            /\ UNCHANGED system_users
       ELSE IF id \notin DOMAIN system_users
       THEN /\ answer' = Answer("deleteSystemUser", 404, {})
            /\ UNCHANGED system_users
       ELSE /\ answer' = Answer("deleteSystemUser", 200, {})
            /\ system_users' = Without(system_users, {id})
    /\ UNCHANGED nextUserId
    /\ UNCHANGED businessVars
    /\ UNCHANGED paymentVars

\* The administrators manage the system users, one request after the
\* other.
NextUsers ==
    \/ accessDenied
    \/ \E input \in UserInputs : addSystemUser(input)
    \/ \E input \in UserInputs : editSystemUser(input)
    \/ \E id \in 0 .. MaxUsers : deleteSystemUser(id)

SpecUsers == InitManage /\ [][NextUsers]_vars

----------------------------------------------------------------------------
(* Properties                                                              *)

\* "d plus n calendar months" as the specification defines it: the day of
\* month is kept, or clamped to the last day of the target month.
AddMonths(date, n) ==
    LET m0 == date[2] + n
        y1 == date[1] + ((m0 - 1) \div 12)
        m1 == ((m0 - 1) % 12) + 1
    IN  <<y1, m1, IF date[3] > DaysInMonth(y1, m1)
                  THEN DaysInMonth(y1, m1) ELSE date[3]>>

\* The due date the subscription was created with.
FirstDue(s) == calculateNextPaymentDate(s.start_date, s.billing_cycle)

PaymentsOf(id) == {p \in payments : p.subscription_id = id}

PaymentIds == {p.id : p \in payments}

\* Request r takes a step from position "from".
StepFrom(r, from) == pc[r] = from /\ pc'[r] # from

\* Request r commits its transaction in this step.
Commits(r) == pc[r] = "commit" /\ pc'[r] = "email"

\* Positions of a request whose transaction is open / has committed.
InTransaction == {"select", "insert", "update", "commit"}
AfterCommit == {"email", "eval", "conf_select", "conf_insert", "conf_send",
                "conf_update", "respond"}

\* C1: when two payment requests against the same subscription have both
\* committed, in any interleaving of their steps, two payment rows are
\* recorded and the due date is exactly two billing cycles past the value it
\* had before either request (no lost update).
C1_NoLostUpdate ==
    \A id \in DOMAIN subscriptions :
        LET s == subscriptions[id] IN
        Cardinality(PaymentsOf(id)) = 2 =>
            s.next_payment_date =
                DateTimeAddMonths(
                    DateTimeAddMonths(FirstDue(s), s.billing_cycle),
                    s.billing_cycle)

\* C2: the commit of a payment sets the due date to the stored due date plus
\* billing_cycle calendar months, whatever payment_date was supplied, and
\* the answer's next_payment_date is the value persisted.
C2_DueDatePlusCycle ==
    [][\A r \in Req :
          LET sid == req[r].input.subscription_id IN
          /\ Commits(r) =>
                subscriptions'[sid].next_payment_date =
                    AddMonths(subscriptions[sid].next_payment_date,
                              subscriptions[sid].billing_cycle)
          /\ StepFrom(r, "respond") =>
                req'[r].response.next_payment_date =
                    subscriptions[sid].next_payment_date]_vars

\* C3: when the day of the current due date does not exist in the target
\* month, the new due date computed for a payment is the last day of the
\* target month, never a day of the month after it.
C3_EndOfMonthClamp ==
    \A r \in Req :
        pc[r] = "commit" =>
            LET due == req[r].subscription.next_payment_date
                target == AddMonths(due, req[r].subscription.billing_cycle)
            IN  due[3] > DaysInMonth(target[1], target[2]) =>
                    req[r].formatted_date =
                        <<target[1], target[2],
                          DaysInMonth(target[1], target[2])>>

\* C4: whatever the status of the subscription (active, stopped, expired)
\* and whatever the new due date, the commit of a payment leaves the
\* subscription active.
C4_PaymentReactivates ==
    [][\A r \in Req :
          Commits(r) =>
              subscriptions'[req[r].input.subscription_id].status
                  = "active"]_vars

\* C4 witness: an expired subscription due 2025-09-01 with cycle 3 has just
\* been paid and is active with due date 2025-12-01.
C4_Witness ==
    \E r \in Req :
        /\ pc[r] = "email"
        /\ req[r].subscription.status = "expired"
        /\ req[r].subscription.next_payment_date = <<2025, 9, 1>>
        /\ req[r].subscription.billing_cycle = 3
        /\ subscriptions[1].status = "active"
        /\ subscriptions[1].next_payment_date = <<2025, 12, 1>>

\* C5: processPayment is atomic.  A step of a request that changes the
\* payments or the subscriptions adds the request's payment row and, with
\* it, moves the due date forward and sets the status active; a request that
\* ends with success has its payment row stored, and a request that ends
\* with a failure (validation, not found, database error at any statement
\* of the transaction) has no payment row and leaves the subscription as
\* it selected it.
C5_Atomic ==
    [][\A r \in Req :
          LET sid == req[r].input.subscription_id IN
          pc'[r] # pc[r] =>
            /\ (payments' # payments \/ subscriptions' # subscriptions) =>
                  /\ PaymentRow(r) \notin payments
                  /\ payments' = payments \cup {PaymentRow(r)}
                  /\ Earlier(subscriptions[sid].next_payment_date,
                             subscriptions'[sid].next_payment_date)
                  /\ subscriptions'[sid].status = "active"
            /\ (pc'[r] = "done" /\ req'[r].response.success) =>
                  \E p \in payments' :
                      /\ p.id = req'[r].response.payment_id
                      /\ p.subscription_id = sid
            /\ (pc'[r] = "done" /\ ~req'[r].response.success) =>
                  /\ \A p \in payments' : p.id # req[r].payment_id
                  /\ UNCHANGED <<payments, subscriptions>>
                  /\ pc[r] \in {"insert", "update", "commit"} =>
                        /\ subscriptions[sid].next_payment_date =
                               req[r].subscription.next_payment_date
                        /\ subscriptions[sid].status =
                               req[r].subscription.status]_vars

\* C5 witness: a request failed with a database error after its INSERT; no
\* payment row is stored and the due date is the one the subscription had.
C5_Witness ==
    \E r \in Req :
        /\ pc[r] = "done"
        /\ req[r].response.code = 500
        /\ nextPaymentId = 2
        /\ payments = {}
        /\ subscriptions[1].next_payment_date = FirstDue(subscriptions[1])

\* The relay call of request r failed: transport error or non-2xx status.
RelayFailed(r) == req[r].relay \in {"curl_error", "http_error"}

\* C6: a failed WhatsApp relay call undoes nothing and is not a payment
\* failure.  No step of a request after its commit changes the payments or
\* the subscriptions, and such a request can only end with success; when the
\* relay call failed, the answer is success = true, whatsapp_sent = false
\* and a non-null whatsapp_error, with the payment row stored and the
\* advanced due date in place.
C6_RelayFailureIsolated ==
    [][\A r \in Req :
          LET sid == req[r].input.subscription_id IN
          (pc[r] \in AfterCommit /\ pc'[r] # pc[r]) =>
            /\ UNCHANGED <<payments, subscriptions>>
            /\ pc'[r] = "done" => req'[r].response.success
            /\ (pc'[r] = "done" /\ RelayFailed(r)) =>
                  /\ ~req'[r].response.whatsapp_sent
                  /\ req'[r].response.whatsapp_error # Null
                  /\ \E p \in payments' :
                        p.id = req'[r].response.payment_id
                  /\ subscriptions'[sid].next_payment_date =
                        req'[r].response.next_payment_date
                  /\ Earlier(req[r].subscription.next_payment_date,
                             subscriptions'[sid].next_payment_date)]_vars

\* C6 witness: a request whose relay call hit a transport error has been
\* answered with success; its payment row and the new due date are stored.
C6_Witness ==
    \E r \in Req :
        /\ pc[r] = "done"
        /\ req[r].response.success
        /\ ~req[r].response.whatsapp_sent
        /\ req[r].response.whatsapp_error = "curl error"
        /\ req[r].response.payment_id \in PaymentIds
        /\ subscriptions[1].next_payment_date =
               req[r].response.next_payment_date
        /\ Earlier(FirstDue(subscriptions[1]),
                   subscriptions[1].next_payment_date)

\* C7: without the client's opt-in no WhatsApp goes out.  Every relay call
\* and every confirmation reminder is made by a request that read
\* whatsapp_opt_in = 1 with the subscription and again when it loaded the
\* payment for the confirmation, whatever send_whatsapp said; the email
\* confirmation is sent for every committed payment, opted in or not.
C7_ConsentOverride ==
    [][/\ (relayLog' # relayLog \/ reminders' # reminders) =>
             \E r \in Req :
                 /\ pc'[r] # pc[r]
                 /\ req[r].subscription.whatsapp_opt_in = 1
                 /\ req[r].conf_opt_in = 1
       /\ \A r \in Req :
             /\ (StepFrom(r, "eval")
                 /\ req[r].subscription.whatsapp_opt_in # 1) =>
                    /\ pc'[r] = "respond"
                    /\ ~req'[r].whatsapp_sent
             /\ Commits(r) => req[r].payment_id \notin emailLog
             /\ StepFrom(r, "email") =>
                    /\ req[r].payment_id \in PaymentIds
                    /\ emailLog' = emailLog \cup {req[r].payment_id}]_vars

\* C7 witness: a payment with send_whatsapp = true for a client with a phone
\* and no opt-in is about to be answered: the email went out, no relay call
\* was made and no reminder was created.
C7_Witness ==
    \E r \in Req :
        /\ pc[r] = "respond"
        /\ req[r].input.send_whatsapp = "true"
        /\ req[r].subscription.whatsapp_opt_in = 0
        /\ req[r].subscription.client_phone = "+1234567890"
        /\ req[r].payment_id \in emailLog
        /\ relayLog = <<>>
        /\ reminders = <<>>

\* C8: after the commit a WhatsApp confirmation is attempted if and only if
\* whatsapp_opt_in is 1, the phone is not the empty string and send_whatsapp
\* was absent or true; with send_whatsapp = false nothing is attempted and
\* whatsapp_sent = false, whatsapp_error = null.
C8_SendCondition ==
    [][\A r \in Req :
          StepFrom(r, "eval") =>
            /\ pc'[r] = "conf_select" <=>
                  /\ req[r].subscription.whatsapp_opt_in = 1
                  /\ req[r].subscription.client_phone \notin {"", Null}
                  /\ req[r].input.send_whatsapp \in {Null, "true"}
            /\ req[r].input.send_whatsapp = "false" =>
                  /\ pc'[r] = "respond"
                  /\ ~req'[r].whatsapp_sent
                  /\ req'[r].whatsapp_error = Null]_vars

\* C9: a payment request for a subscription id that names no row ends at
\* the SELECT with an error answer; no payment row is inserted, no
\* subscription changed, no email, relay call or reminder made.
C9_NotFound ==
    [][\A r \in Req :
          (StepFrom(r, "select")
           /\ req[r].input.subscription_id \notin DOMAIN subscriptions) =>
            /\ pc'[r] = "done"
            /\ ~req'[r].response.success
            /\ req'[r].response.code \in {404, 500}
            /\ req[r].payment_id = 0
            /\ UNCHANGED <<payments, subscriptions, nextPaymentId,
                           emailLog, relayLog, reminders>>]_vars

\* C9 witness: a request was answered 404 and the database and the
\* notification logs are as they were before it.
C9_Witness ==
    \E r \in Req :
        /\ pc[r] = "done"
        /\ req[r].response.code = 404
        /\ payments = {}
        /\ nextPaymentId = 1
        /\ subscriptions[1].next_payment_date = FirstDue(subscriptions[1])
        /\ emailLog = {}
        /\ relayLog = <<>>
        /\ reminders = <<>>

\* C10: an email, a relay call or a reminder insert/update happens only in
\* a step of a request whose transaction has committed: the request is past
\* its commit and its payment row is stored.  None happens while the
\* transaction is open or after it was rolled back.
C10_NotifyAfterCommit ==
    [][(emailLog' # emailLog \/ relayLog' # relayLog
        \/ reminders' # reminders) =>
          \E r \in Req :
              /\ pc'[r] # pc[r]
              /\ pc[r] \in AfterCommit
              /\ pc[r] \notin InTransaction
              /\ req[r].payment_id \in PaymentIds]_vars

\* C10 witness: after the commit of a payment, its email was sent, its
\* reminder inserted and the relay called.
C10_Witness ==
    \E r \in Req :
        /\ pc[r] \in {"conf_update", "respond"}
        /\ req[r].payment_id \in PaymentIds
        /\ req[r].payment_id \in emailLog
        /\ relayLog = <<req[r].payment_id>>
        /\ req[r].reminderId \in DOMAIN reminders

----------------------------------------------------------------------------
(* Properties of the management endpoints                                  *)

tables == <<clients, subscriptions, payments, reminders>>

\* A row of a listing that shows a past-due subscription as active.
StaleRow(row) ==
    row.status = "active" /\ Earlier(row.next_payment_date, Today)

\* C11: no read that returns subscriptions (the subscriptions list, the
\* subscriptions of the client-details read) returns a subscription that
\* is active with a due date earlier than today.
C11_ListedNotStale ==
    (answer.op \in {"getSubscriptions", "getClient"} /\ answer.code = 200)
        => \A row \in answer.data : ~StaleRow(row)

\* C12: a sweep that runs right after a successful sweep, on the same day,
\* changes no table; the sweep applied twice gives what it gives once.
C12_SweepIdempotent ==
    [][/\ (/\ answer.op = "getSubscriptions" /\ ~answer.error_log
           /\ answer'.op = "getSubscriptions")
          => UNCHANGED tables
       /\ ExpireRows(ExpireRows(subscriptions)) = ExpireRows(subscriptions)
      ]_vars

\* A state that has just been swept and holds a subscription the sweep
\* expired; the next list request sweeps it again.
C12_Witness ==
    /\ answer.op = "getSubscriptions"
    /\ ~answer.error_log
    /\ \E id \in DOMAIN subscriptions :
           /\ subscriptions[id].status = "expired"
           /\ Earlier(subscriptions[id].next_payment_date, Today)

\* C13: a subscription with status expired has a due date earlier than
\* today (no payment can follow the expiry unnoticed: a payment sets the
\* status to active).
C13_ExpiredIsPastDue ==
    \A id \in DOMAIN subscriptions :
        subscriptions[id].status = "expired"
            => Earlier(subscriptions[id].next_payment_date, Today)

\* C16: a request answered as a validation error (400) leaves every table
\* as it was, for processPayment, addSubscription and editSubscription
\* alike, and every stored subscription has a billing_cycle of 1 or 3 and
\* a type of internet or satellite.
C16_RejectedMutatesNothing ==
    [][/\ (answer'.code = 400 /\ UNCHANGED <<pc, req>>)
          => UNCHANGED <<tables, nextClientId, nextSubscriptionId>>
       /\ \A r \in Req :
             (pc[r] # "done" /\ pc'[r] = "done"
                  /\ req'[r].response.code = 400)
                => UNCHANGED <<tables, nextPaymentId>>
       /\ \A id \in DOMAIN subscriptions' :
             /\ subscriptions'[id].billing_cycle \in {1, 3}
             /\ subscriptions'[id].type \in {"internet", "satellite"}
      ]_vars

\* A subscription is stored, an add or edit of a subscription was just
\* rejected, and a pay request was rejected.
C16_Witness ==
    /\ DOMAIN subscriptions # {}
    /\ answer.op \in {"addSubscription", "editSubscription"}
    /\ answer.code = 400
    /\ \E r \in Req : pc[r] = "done" /\ req[r].response.code = 400

C14_DueDateOnCycle ==
    \A id \in DOMAIN subscriptions :
        \E k \in 0 .. (MaxPayments + 1) :
            subscriptions[id].next_payment_date =
                AddMonths(subscriptions[id].start_date,
                          k * subscriptions[id].billing_cycle)

\* C18: no step changes a payment row that exists before and after it,
\* and a payment row appears only at the commit of a processPayment
\* request, as the row that request inserted.
C18_PaymentsImmutable ==
    [][/\ \A p \in payments : \A q \in payments' : q.id = p.id => q = p
       /\ (payments' \ payments # {})
          => \E r \in Req : /\ Commits(r)
                             /\ payments' = payments \cup {PaymentRow(r)}
      ]_vars

\* A payment is on record and the staff have since edited, stopped or
\* resumed its subscription or listed the subscriptions.
C18_Witness ==
    /\ payments # {}
    /\ answer.code = 200
    /\ answer.op \in {"editSubscription", "stopSubscription",
                       "resumeSubscription", "getSubscriptions"}

\* C19: every subscription belongs to a stored client, every payment to a
\* stored subscription, every reminder to a stored client; so the delete
\* of a client (or subscription) leaves none of its rows behind.
C19_OwnedRowsGoWithOwner ==
    /\ \A id \in DOMAIN subscriptions :
           subscriptions[id].client_id \in DOMAIN clients
    /\ \A p \in payments : p.subscription_id \in DOMAIN subscriptions
    /\ \A id \in DOMAIN reminders :
           reminders[id].client_id \in DOMAIN clients

\* The client was deleted after a payment of its subscription had
\* committed, while that request was still sending its notifications.
C19_Witness ==
    /\ answer.op = "deleteClient"
    /\ answer.code = 200
    /\ clients = <<>>
    /\ \E r \in Req : pc[r] \in {"email", "eval", "respond"}

\* C15: a reminder changes status only while it is pending (to sent or to
\* failed); a reminder that is sent or failed keeps its status.
C15_ReminderStatusOnce ==
    [][\A id \in DOMAIN reminders \cap DOMAIN reminders' :
          reminders'[id].status # reminders[id].status
              => /\ reminders[id].status = "pending"
                 /\ reminders'[id].status \in {"sent", "failed"}
      ]_vars

\* The client of reminder id has opted in for WhatsApp.
OptedIn(id) ==
    /\ reminders[id].client_id \in DOMAIN clients
    /\ clients[reminders[id].client_id].whatsapp_opt_in # 0

\* C20: a reminder is passed to the WhatsApp sender only by a send that
\* finds it pending, flagged send_via_whatsapp and with its client opted in
\* at that moment; a pending reminder flagged send_via_whatsapp whose
\* client is not opted in is set to failed and nothing is sent; addReminder
\* stores send_via_whatsapp = 0 for a client that is not opted in.
C20_OnlyOptedInClients ==
    [][/\ \A id \in sentMessages' \ sentMessages :
             /\ id \in DOMAIN reminders
             /\ reminders[id].status = "pending"
             /\ reminders[id].send_via_whatsapp # 0
             /\ OptedIn(id)
       /\ \A id \in DOMAIN reminders \cap DOMAIN reminders' :
             (/\ reminders[id].status = "pending"
              /\ reminders'[id].status # "pending"
              /\ reminders[id].send_via_whatsapp # 0
              /\ ~OptedIn(id))
                => /\ reminders'[id].status = "failed"
                   /\ sentMessages' = sentMessages
       /\ \A id \in DOMAIN reminders' \ DOMAIN reminders :
             ~(reminders'[id].client_id \in DOMAIN clients
               /\ clients[reminders'[id].client_id].whatsapp_opt_in # 0)
                => reminders'[id].send_via_whatsapp = 0
      ]_vars

\* One reminder went out over WhatsApp; another, flagged for WhatsApp, was
\* sent after its client had opted out: it failed and no message was
\* passed to the sender.
C20_Witness ==
    /\ sentMessages # {}
    /\ \E id \in DOMAIN reminders :
           /\ reminders[id].status = "failed"
           /\ reminders[id].send_via_whatsapp # 0
           /\ id \notin sentMessages
           /\ ~OptedIn(id)

----------------------------------------------------------------------------
(* Properties of the WhatsApp confirmation and of the relay call           *)

\* The relay call of request r reported a failure to its caller.
ReportedFailure(r) ==
    req[r].relay # Null /\ ~SendResult(req[r].relay).success

\* C21: the reminder of a payment confirmation is stored with status sent
\* when the relay is called; when sendPaymentConfirmationInternal returns
\* after the call, that reminder is failed if the relay call reported a
\* failure and sent otherwise; every call of the relay has one reminder row
\* of its own.
C21_OptimisticReminder ==
    [][\A r \in Req :
          LET rid == req[r].reminderId IN
          /\ (pc[r] = "conf_send" /\ relayLog' # relayLog) =>
                /\ rid \in DOMAIN reminders
                /\ reminders[rid].status = "sent"
                /\ reminders[rid].payment_id = req[r].payment_id
          /\ (pc[r] \in {"conf_send", "conf_update"}
                 /\ pc'[r] = "respond") =>
                /\ rid \in DOMAIN reminders'
                /\ reminders'[rid].status =
                       IF ReportedFailure(r)' THEN "failed" ELSE "sent"
          /\ Cardinality(DOMAIN reminders') =
                Len(relayLog')
                  + Cardinality({q \in Req : pc'[q] = "conf_send"})]_vars

\* C22: the relay call succeeds only for a 2xx answer with a well-formed
\* JSON body; a transport error, a non-2xx status and a body that is not
\* valid JSON each come back as a failure with an error message.
C22_RelayFailureKinds ==
    \A r \in Req :
        (pc[r] \in {"conf_update", "respond"} /\ req[r].relay # Null) =>
            IF req[r].relay = "ok"
            THEN req[r].whatsapp_sent /\ req[r].whatsapp_error = Null
            ELSE ~req[r].whatsapp_sent /\ req[r].whatsapp_error # Null

\* C23: the relay is called at most once for a payment, whether the call
\* succeeds or fails, and the reminder of a payment confirmation is never
\* sent again by a later request (single or bulk send of reminders).
C23_NoRetry ==
    /\ \A i, j \in 1..Len(relayLog) : relayLog[i] = relayLog[j] => i = j
    /\ \A id \in sentMessages :
           id \in DOMAIN reminders => reminders[id].payment_id = 0

\* C23 witness: the relay call of a payment failed, its reminder is stored
\* as failed, the payment request is over, and a later request is about to
\* pass that reminder to sendReminderById.
C23_Witness ==
    /\ \E id \in DOMAIN reminders :
           /\ reminders[id].payment_id # 0
           /\ reminders[id].status = "failed"
    /\ \A r \in Req : pc[r] \in {"idle", "done"}
    /\ Len(relayLog) = 1
    /\ sendQueue # <<>>
    /\ Head(sendQueue) \in DOMAIN reminders
    /\ reminders[Head(sendQueue)].payment_id # 0

----------------------------------------------------------------------------
(* Properties of the subscription life cycle                               *)

\* Subscription row sid is active and its due date is before today.
Overdue(sid) ==
    /\ subscriptions[sid].status = "active"
    /\ Earlier(subscriptions[sid].next_payment_date, Today)

\* C24: a list read, whose first statement is the expiration sweep, changes
\* nothing but the status of subscriptions that are active and overdue,
\* which become expired: no row appears or disappears, stopped and expired
\* rows stay as they are, no due date, cycle or start date moves, payments,
\* reminders and clients are untouched and no email or WhatsApp message
\* goes out.
C24_SweepFrame ==
    [][(\E client_id \in {0, 1} : getSubscriptions(client_id)) =>
          /\ DOMAIN subscriptions' = DOMAIN subscriptions
          /\ \A sid \in DOMAIN subscriptions :
                /\ subscriptions'[sid] =
                       [subscriptions[sid] EXCEPT
                           !.status = subscriptions'[sid].status]
                /\ subscriptions'[sid].status # subscriptions[sid].status
                       => /\ Overdue(sid)
                          /\ subscriptions'[sid].status = "expired"
          /\ UNCHANGED <<clients, payments, reminders>>
          /\ UNCHANGED <<emailLog, relayLog, sentMessages>>]_vars

\* C24 witness: a list read has answered with a stopped subscription whose
\* due date is in the past, while a payment and a reminder are stored.
C24_Witness ==
    /\ answer.op = "getSubscriptions"
    /\ \E row \in answer.data :
          /\ row.id \in DOMAIN subscriptions
          /\ row.status = "stopped"
          /\ subscriptions[row.id].status = "stopped"
          /\ Earlier(row.next_payment_date, Today)
    /\ payments # {}
    /\ DOMAIN reminders # {}

\* The status of some stored subscription differs after the step.
StatusChanged ==
    \E sid \in DOMAIN subscriptions \cap DOMAIN subscriptions' :
        subscriptions'[sid].status # subscriptions[sid].status

\* C25: a new subscription starts as active; the status of a stored
\* subscription changes only in a step of stopSubscription, of
\* resumeSubscription, of the sweep of a list read or in the commit of a
\* payment; editSubscription leaves every status as it is, whatever
\* start date and cycle it submits.
C25_StatusWriters ==
    [][/\ \A sid \in DOMAIN subscriptions' \ DOMAIN subscriptions :
             subscriptions'[sid].status = "active"
       /\ StatusChanged =>
             \/ \E id \in IdInputs : stopSubscription(id)
             \/ \E id \in IdInputs : resumeSubscription(id)
             \/ \E client_id \in {0, 1} : getSubscriptions(client_id)
             \/ \E r \in Req : Commit(r)
       /\ (\E input \in ValidEditSubscriptionInputs :
                 editSubscription(input))
             => ~StatusChanged]_vars

\* C25 witness: a stopped subscription with a recorded payment has been
\* edited, and it is still stopped.
C25_Witness ==
    /\ answer = Answer("editSubscription", 200, {})
    /\ 1 \in DOMAIN subscriptions
    /\ subscriptions[1].status = "stopped"
    /\ \E p \in payments : p.subscription_id = 1

----------------------------------------------------------------------------
(* Properties of the amounts and of the due dates                          *)

\* Request r takes the pay request with the given body.
Receives(r, input) == ReceiveFrom(r, {input})

RECURSIVE Advanced(_, _, _)
Advanced(s, c, k) ==
    IF k = 0 THEN s ELSE AddMonths(Advanced(s, c, k - 1), c)

\* C29: whenever no pay request is being served, a subscription that was
\* never edited has as many payment rows as payments succeeded, and its due
\* date is its start date advanced by one cycle more than it has payment
\* rows (cycle by cycle, or the months added at once).
C29_PaymentsAdvanceDueDate ==
    (\A r \in Req : pc[r] \in {"idle", "done"}) =>
        \A id \in DOMAIN subscriptions :
            LET s == subscriptions[id]
                n == Cardinality(PaymentsOf(id))
            IN  \/ s.next_payment_date =
                       Advanced(s.start_date, s.billing_cycle, n + 1)
                \/ s.next_payment_date =
                       AddMonths(s.start_date, (n + 1) * s.billing_cycle)

----------------------------------------------------------------------------
(* Properties of the system users                                          *)

\* C30: at least one system user has the role admin.
C30_AdminRemains ==
    \E id \in DOMAIN system_users : system_users[id].role = "admin"

====
